---- MODULE Spec2Model ----
(***************************************************************************)
(* Model of .github/autotag.py: the version classes, the update-type       *)
(* classification and aggregation, and main(), which reads the latest tag, *)
(* folds the change records of the head commit into one version bump and   *)
(* creates or reseats a tag.                                               *)
(*                                                                         *)
(* Strings are sequences of tokens.  A token is one character ("1", ".",   *)
(* "v", "=", "-") or one word that the program only ever handles whole     *)
(* ("JENKINS_VERSION", "-FROM ", "jenkins/jenkins:lts", a digest).  The    *)
(* version strings of the model are written over digits and "." only, so   *)
(* the optional pre-release and build-metadata groups of the two version   *)
(* regexes never match anything.                                           *)
(***************************************************************************)
EXTENDS Integers, Sequences, FiniteSets, TLC

VARIABLES
    pc,                         \* position of the run of main
    tags,                       \* this_repo.tags: tag name -> commit
    remote_tags,                \* the tags of the remote origin
    tags_before,                \* this_repo.tags as they were when the run began
    head,                       \* this_repo.head.commit
    runs,                       \* number of runs of main started so far
    args,                       \* args[PUSH_LONG_OPTION]
    patch,                      \* the change records of the head commit
    idx,                        \* next change record of the for loop
    latest_version,             \* SemanticVersion read from the tags
    new_latest_version,         \* the working copy
    repo_update_types,          \* list of VersionUpdateTypes
    reseat_latest_version_tag,  \* bool
    ops,                        \* tag operations issued by the current run
    exit_code,                  \* exit status of the finished run
    last_created,               \* name of the tag the latest creating run made
    call                        \* a call of one of the two Version methods

vars == <<pc, tags, remote_tags, tags_before, head, runs, args, patch, idx, latest_version,
          new_latest_version, repo_update_types, reseat_latest_version_tag,
          ops, exit_code, last_created, call>>

-----------------------------------------------------------------------------
(* Bounds of the model. *)

MaxRecords == 2
MaxRuns == 2
MaxSeverities == 4
MaxPart == 1

-----------------------------------------------------------------------------
(* Strings. *)

Digits == <<"0", "1", "2", "3", "4", "5", "6", "7", "8", "9">>

IsDigit(c) == \E i \in 1..10 : Digits[i] = c

DigitVal(c) == CHOOSE i \in 0..9 : Digits[i + 1] = c

\* Code point order of the characters that occur in tag names.
Ord(c) ==
    CASE c = "-" -> 45
      [] c = "." -> 46
      [] c = "v" -> 118
      [] OTHER -> 48 + DigitVal(c)

\* Python's < on str: the first differing character decides, a proper
\* prefix is smaller.
RECURSIVE StrLess(_, _)
StrLess(s, t) ==
    IF t = <<>> THEN FALSE
    ELSE IF s = <<>> THEN TRUE
    ELSE IF Head(s) = Head(t) THEN StrLess(Tail(s), Tail(t))
    ELSE Ord(Head(s)) < Ord(Head(t))

\* str(n) for an int.
RECURSIVE NatToStr(_)
NatToStr(n) ==
    IF n < 10 THEN <<Digits[n + 1]>>
    ELSE NatToStr(n \div 10) \o <<Digits[(n % 10) + 1]>>

IntToStr(n) == IF n < 0 THEN <<"-">> \o NatToStr(0 - n) ELSE NatToStr(n)

\* int(s) for a string of digits.
RECURSIVE StrToInt(_)
StrToInt(s) ==
    IF Len(s) = 1 THEN DigitVal(s[1])
    ELSE 10 * StrToInt(SubSeq(s, 1, Len(s) - 1)) + DigitVal(s[Len(s)])

\* s.split(sep)
RECURSIVE Split(_, _)
Split(s, sep) ==
    IF \A i \in 1..Len(s) : s[i] # sep THEN <<s>>
    ELSE LET i == CHOOSE k \in 1..Len(s) :
                      s[k] = sep /\ \A j \in 1..(k - 1) : s[j] # sep
         IN <<SubSeq(s, 1, i - 1)>> \o Split(SubSeq(s, i + 1, Len(s)), sep)

\* s.replace(old, "") for a one-character old.
RECURSIVE Remove(_, _)
Remove(s, old) ==
    IF s = <<>> THEN <<>>
    ELSE IF Head(s) = old THEN Remove(Tail(s), old)
    ELSE <<Head(s)>> \o Remove(Tail(s), old)

\* The value None, which is no string.
None == <<"None">>

\* (0|[1-9]\d*) against a whole part.
IsNumericPart(p) ==
    /\ Len(p) >= 1
    /\ \A i \in 1..Len(p) : IsDigit(p[i])
    /\ (Len(p) > 1 => p[1] # "0")

-----------------------------------------------------------------------------
(* class VersionUpdateTypes, class Version *)

VersionUpdateTypes == {"MAJOR", "MINOR", "PATCH"}

\* GreatestStep without the test that keeps MAJOR over a later MINOR.
GreatestStepNoMajorGuard(greatest, version) ==
    IF version = "PATCH" /\ greatest # "MINOR" /\ greatest # "MAJOR"
        THEN "PATCH"
    ELSE IF version = "MINOR" THEN "MINOR"
    ELSE IF version = "MAJOR" THEN "MAJOR"
    ELSE greatest

\* One iteration of the loop of determine_greatest_update_type.
GreatestStep(greatest, version) ==
    IF version = "PATCH" /\ greatest # "MINOR" /\ greatest # "MAJOR"
        THEN "PATCH"
    ELSE IF version = "MINOR" /\ greatest # "MAJOR" THEN "MINOR"
    ELSE IF version = "MAJOR" THEN "MAJOR"
    ELSE greatest

RECURSIVE GreatestFrom(_, _)
GreatestFrom(greatest, versions) ==
    IF versions = <<>> THEN greatest
    ELSE GreatestFrom(GreatestStep(greatest, Head(versions)), Tail(versions))

\* determine_greatest_update_type with its return inside the loop.
determine_greatest_update_type_first(versions) ==
    IF versions = <<>> THEN "None" ELSE GreatestStep("None", Head(versions))

\* Version.determine_greatest_update_type; "None" is Python's None.
determine_greatest_update_type(versions) == GreatestFrom("None", versions)

Abs(n) == IF n < 0 THEN 0 - n ELSE n

\* determine_update_types with >= 0 for > 0 in the test of the patch.
determine_update_types_ge(self, v1) ==
    (IF Abs(self.major - v1.major) > 0 THEN <<"MAJOR">> ELSE <<>>)
    \o (IF Abs(self.minor - v1.minor) > 0 THEN <<"MINOR">> ELSE <<>>)
    \o (IF Abs(self.patch - v1.patch) >= 0 THEN <<"PATCH">> ELSE <<>>)

\* Version.determine_update_types
determine_update_types(self, v1) ==
    (IF Abs(self.major - v1.major) > 0 THEN <<"MAJOR">> ELSE <<>>)
    \o (IF Abs(self.minor - v1.minor) > 0 THEN <<"MINOR">> ELSE <<>>)
    \o (IF Abs(self.patch - v1.patch) > 0 THEN <<"PATCH">> ELSE <<>>)

-----------------------------------------------------------------------------
(* class SemanticVersion *)

\* re.match(SEMANTIC_VERSION_REGEX, version) is not None
SemanticVersionMatches(version) ==
    /\ version # None
    /\ LET groups == Split(version, ".")
       IN /\ Len(groups) = 3
          /\ \A i \in 1..3 : IsNumericPart(groups[i])

\* SemanticVersion.__init__, for a version the regex matches
SemanticVersion(version) ==
    LET semantic_groups == Split(version, ".")
    IN [major |-> StrToInt(semantic_groups[1]),
        minor |-> StrToInt(semantic_groups[2]),
        patch |-> StrToInt(semantic_groups[3])]

set_major(self, to) == [self EXCEPT !.major = to]
set_minor(self, to) == [self EXCEPT !.minor = to]
set_patch(self, to) == [self EXCEPT !.patch = to]
increment_major(self, by) == [self EXCEPT !.major = @ + by]
increment_minor(self, by) == [self EXCEPT !.minor = @ + by]
increment_patch(self, by) == [self EXCEPT !.patch = @ + by]

\* f"{v.major}.{v.minor}.{v.patch}"
FString(v) ==
    IntToStr(v.major) \o <<".">> \o IntToStr(v.minor) \o <<".">>
        \o IntToStr(v.patch)

\* __eq__ with the patch left out of the two strings.
VersionEqMajorMinor(self, v) ==
    IntToStr(self.major) \o <<".">> \o IntToStr(self.minor)
        = IntToStr(v.major) \o <<".">> \o IntToStr(v.minor)

\* SemanticVersion.__eq__ and JenkinsVersion.__eq__
VersionEq(self, v) == FString(self) = FString(v)

\* SemanticVersion.__str__
SemanticVersionStr(self) == FString(self)

-----------------------------------------------------------------------------
(* class JenkinsVersion *)

_IMPLICIT_PATCH_CHANGE_VERSION == -1

\* re.match(JENKINS_VERSION_REGEX, version) is not None
JenkinsVersionMatches(version) ==
    /\ version # None
    /\ LET groups == Split(version, ".")
       IN /\ Len(groups) \in {2, 3}
          /\ \A i \in 1..Len(groups) : IsNumericPart(groups[i])

\* JenkinsVersion.__init__ with 0 for the patch the string leaves out.
JenkinsVersionZeroPatch(version) ==
    LET version_groups == Split(version, ".")
    IN [major |-> StrToInt(version_groups[1]),
        minor |-> StrToInt(version_groups[2]),
        patch |-> IF Len(version_groups) < 3 THEN 0
                  ELSE StrToInt(version_groups[3])]

\* JenkinsVersion.__init__, for a version the regex matches
JenkinsVersion(version) ==
    LET version_groups == Split(version, ".")
    IN [major |-> StrToInt(version_groups[1]),
        minor |-> StrToInt(version_groups[2]),
        patch |-> IF Len(version_groups) < 3
                  THEN _IMPLICIT_PATCH_CHANGE_VERSION
                  ELSE StrToInt(version_groups[3])]

\* JenkinsVersion.__str__
JenkinsVersionStr(self) ==
    IF self.patch = _IMPLICIT_PATCH_CHANGE_VERSION
    THEN IntToStr(self.major) \o <<".">> \o IntToStr(self.minor)
    ELSE FString(self)

-----------------------------------------------------------------------------
(* Module constants and get_jenkins_version *)

_DOCKERFILE == "Dockerfile"
_JENKINS_DOCKER_IMAGE == "jenkins/jenkins:lts"
_JENKINS_VERSION_ENV_VAR_NAME == "JENKINS_VERSION"

\* Words a name of an environment variable or a digest is made of: \w+
IsWord(tok) == tok \in {"JENKINS_VERSION", "JAVA_HOME", "aaa", "bbb", "ccc",
                        "ddd", "eee", "fff"}

\* re.findall(rf"(?<={sign}){_JENKINS_DOCKER_IMAGE}@sha256:\w+", text) from
\* position i on; a match is the image reference.
RECURSIVE FindAllFrom(_, _, _)
FindAllFrom(sign, text, i) ==
    IF i + 3 > Len(text) THEN <<>>
    ELSE IF /\ text[i] = sign
            /\ text[i + 1] = _JENKINS_DOCKER_IMAGE
            /\ text[i + 2] = "@sha256:"
            /\ IsWord(text[i + 3])
         THEN <<SubSeq(text, i + 1, i + 3)>> \o FindAllFrom(sign, text, i + 4)
         ELSE FindAllFrom(sign, text, i + 1)

\* re.findall(PRIOR_JENKINS_DOCKER_IMAGE, text)
FindAllPrior(text) == FindAllFrom("-FROM ", text, 1)

\* re.findall(CURRENT_JENKINS_DOCKER_IMAGE, text)
FindAllCurrent(text) == FindAllFrom("+FROM ", text, 1)

\* re.compile(ENV_VAR_REGEX).search(env_var)
EnvVarMatches(env_var) ==
    /\ Len(env_var) >= 3
    /\ IsWord(env_var[1])
    /\ env_var[2] = "="

\* The for loop of get_jenkins_version over the Env list of an image.
RECURSIVE JenkinsVersionOfEnv(_)
JenkinsVersionOfEnv(jenkins_env_vars) ==
    IF jenkins_env_vars = <<>> THEN None
    ELSE LET env_var == Head(jenkins_env_vars)
         IN IF /\ EnvVarMatches(env_var)
               /\ <<_JENKINS_VERSION_ENV_VAR_NAME>> = Split(env_var, "=")[1]
            THEN Split(env_var, "=")[2]
            ELSE JenkinsVersionOfEnv(Tail(jenkins_env_vars))

JavaHome == <<"JAVA_HOME", "=", "/opt/java/openjdk">>

JenkinsEnv(version) == <<JavaHome, <<"JENKINS_VERSION", "=">> \o version>>

\* docker_client.images.pull(docker_image).attrs["Config"]["Env"] for the
\* images of the registry the model knows.
ImageEnv(docker_image) ==
    CASE docker_image[3] = "aaa" -> JenkinsEnv(<<"2", ".", "3", "3", "0">>)
      [] docker_image[3] = "bbb" -> JenkinsEnv(<<"2", ".", "3", "3", "1">>)
      [] docker_image[3] = "ccc" -> JenkinsEnv(<<"3", ".", "1">>)
      [] docker_image[3] = "ddd" ->
             JenkinsEnv(<<"2", ".", "3", "3", "0", ".", "1">>)
      [] docker_image[3] = "fff" -> JenkinsEnv(<<"2", ".", "3", "3", "0">>)
      [] OTHER -> <<JavaHome>>

get_jenkins_version(docker_image) == JenkinsVersionOfEnv(ImageEnv(docker_image))

-----------------------------------------------------------------------------
(* The change records a commit may hold. *)

FromLine(sign, digest) ==
    <<sign, _JENKINS_DOCKER_IMAGE, "@sha256:", digest, "\n">>

DockerfileDiffs ==
    { FromLine("-FROM ", "aaa") \o FromLine("+FROM ", d) :
          d \in {"bbb", "ccc", "ddd", "eee", "fff"} }
    \cup { FromLine("-FROM ", "aaa") \o <<"+FROM ", "debian:12", "\n">>,
           <<"-FROM ", "debian:12", "\n">> \o FromLine("+FROM ", "bbb") }

\* chd_object.b_path is None: the diff names no file on its b side.  It is
\* written as the empty name, which no file has.
NoPath == ""

ChangeRecords ==
    { [b_path |-> _DOCKERFILE, diff |-> d] : d \in DockerfileDiffs }
    \cup { [b_path |-> p, diff |-> <<"+", "line", "\n">>] :
               p \in {"casc.yaml", "plugins.txt", "README.md"} }
    \cup { [b_path |-> NoPath, diff |-> <<"-", "line", "\n">>] }

Patches == UNION { [1..n -> ChangeRecords] : n \in 0..MaxRecords }

-----------------------------------------------------------------------------
(* main *)

TagName(major, minor, patch_) ==
    <<"v">> \o FString([major |-> major, minor |-> minor, patch |-> patch_])

\* Tag lists a repository tagged by this program can hold before a run.
InitialTags ==
    { {TagName(1, 2, 0)},
      {TagName(1, 8, 0), TagName(1, 9, 0)} }

Unset == [major |-> 0, minor |-> 0, patch |-> 0]

NoCall == [fn |-> "none", versions |-> <<>>, v0 |-> <<>>, v1 |-> <<>>,
           form |-> "none", latest |-> Unset, returned |-> FALSE,
           greatest |-> "None", update_types |-> <<>>, new_latest |-> Unset]

\* sorted(names, key=lambda tagref: str(tagref))[-1]
SortedLast(names) ==
    CHOOSE n \in names : \A m \in names \ {n} : StrLess(m, n)

\* NewLatestVersion with one bump for every update type of the list.
RECURSIVE NewLatestVersionPerRecord(_, _)
NewLatestVersionPerRecord(latest, repo_types) ==
    IF repo_types = <<>> THEN latest
    ELSE LET copy == NewLatestVersionPerRecord(
                         latest, SubSeq(repo_types, 1, Len(repo_types) - 1))
             type == repo_types[Len(repo_types)]
         IN IF type = "PATCH" THEN increment_patch(copy, 1)
            ELSE IF type = "MINOR" THEN increment_minor(set_patch(copy, 0), 1)
            ELSE increment_major(set_minor(set_patch(copy, 0), 0), 1)

\* Lines 362 and 443-454: the working copy of latest after the bump for the
\* greatest of repo_types.
NewLatestVersion(latest, repo_types) ==
    LET copy == SemanticVersion(SemanticVersionStr(latest))
        greatest_repo_update_type == determine_greatest_update_type(repo_types)
    IN IF greatest_repo_update_type = "PATCH" THEN increment_patch(copy, 1)
       ELSE IF greatest_repo_update_type = "MINOR"
           THEN increment_minor(set_patch(copy, 0), 1)
       ELSE IF greatest_repo_update_type = "MAJOR"
           THEN increment_major(set_minor(set_patch(copy, 0), 0), 1)
       ELSE copy

\* An exception no one catches ends the interpreter with status 1.
Crash ==
    /\ pc' = "crashed"
    /\ exit_code' = 1

\* PushRefs without the test of the push option.
PushRefsAlways(refs) == refs

\* Lines 461 and 471: the refs the run pushes, none without the push option.
PushRefs(refs) == IF args THEN refs ELSE <<>>

\* this_repo.remote().push(ref) raises when git push fails without a
\* status line: the remote cannot be reached, or ref is the removal of a tag
\* the remote does not hold.
PushRaises(remote, ref, unreachable) ==
    \/ unreachable
    \/ Head(ref) = ":" /\ Tail(ref) \notin DOMAIN remote

\* The tags of the remote after git push of ref: ":tag" removes the tag, and
\* "tag" sets it unless the remote holds it at another commit (rejected).
RemoteAfterPush(remote, local, ref) ==
    IF Head(ref) = ":"
    THEN [n \in DOMAIN remote \ {Tail(ref)} |-> remote[n]]
    ELSE IF ref \in DOMAIN remote /\ remote[ref] # local[ref] THEN remote
    ELSE [n \in DOMAIN remote \cup {ref} |->
              IF n = ref THEN local[ref] ELSE remote[n]]

\* The pushes of refs one after the other, up to the first that raises; the
\* remote cannot be reached at push number fail_at (0: it always can).
RECURSIVE PushAll(_, _, _, _)
PushAll(remote, local, refs, fail_at) ==
    IF refs = <<>> THEN [remote |-> remote, ops |-> <<>>, raised |-> FALSE]
    ELSE IF PushRaises(remote, Head(refs), fail_at = 1)
        THEN [remote |-> remote, ops |-> <<>>, raised |-> TRUE]
    ELSE LET rest == PushAll(RemoteAfterPush(remote, local, Head(refs)),
                             local, Tail(refs), fail_at - 1)
         IN [remote |-> rest.remote,
             ops |-> <<[op |-> "push", ref |-> Head(refs)]>> \o rest.ops,
             raised |-> rest.raised]

\* main returns and the script calls sys.exit(0), unless a push raised.
Ended(raised) ==
    IF raised THEN Crash ELSE pc' = "done" /\ exit_code' = 0

\* Lines 355-368: read the latest tag and the diff of the head commit.
Start ==
    /\ pc = "idle"
    /\ runs < MaxRuns
    /\ runs' = runs + 1
    /\ \E records \in Patches, push \in BOOLEAN :
           /\ patch' = records
           /\ args' = push
    /\ idx' = 1
    /\ repo_update_types' = <<>>
    /\ reseat_latest_version_tag' = FALSE
    /\ IF DOMAIN tags = {}
       THEN Crash /\ UNCHANGED <<latest_version, new_latest_version>>
       ELSE LET version == Remove(SortedLast(DOMAIN tags), "v")
            IN IF ~SemanticVersionMatches(version)
               THEN Crash /\ UNCHANGED <<latest_version, new_latest_version>>
               ELSE /\ latest_version' = SemanticVersion(version)
                    /\ new_latest_version' =
                           SemanticVersion(
                               SemanticVersionStr(SemanticVersion(version)))
                    /\ pc' = "loop"
                    /\ UNCHANGED exit_code
    /\ UNCHANGED <<tags, remote_tags, tags_before, head, ops, last_created,
                   call>>

\* Lines 390-427: the base image digest changed.
DigestChange(patch_text) ==
    IF FindAllCurrent(patch_text) = <<>>
    THEN Crash /\ UNCHANGED <<idx, repo_update_types>>
    ELSE
    LET prior_jenkins_img == FindAllPrior(patch_text)[1]
        current_jenkins_img == FindAllCurrent(patch_text)[1]
        prior_str == get_jenkins_version(prior_jenkins_img)
        current_str == get_jenkins_version(current_jenkins_img)
    IN IF ~JenkinsVersionMatches(prior_str)
          \/ ~JenkinsVersionMatches(current_str)
       THEN Crash /\ UNCHANGED <<idx, repo_update_types>>
       ELSE
       LET types_of_jenkins_update ==
               determine_update_types(JenkinsVersion(prior_str),
                                      JenkinsVersion(current_str))
           greatest_jenkins_update_type ==
               determine_greatest_update_type(types_of_jenkins_update)
       IN IF greatest_jenkins_update_type = "MAJOR"
          THEN /\ pc' = "aborted"
               /\ exit_code' = 1
               /\ UNCHANGED <<idx, repo_update_types>>
          ELSE /\ repo_update_types' =
                      IF greatest_jenkins_update_type \in {"PATCH", "MINOR"}
                      THEN Append(repo_update_types,
                                  greatest_jenkins_update_type)
                      ELSE repo_update_types
               /\ idx' = idx + 1
               /\ UNCHANGED <<pc, exit_code>>

\* Lines 369-441: one iteration of the loop over the change records.
ProcessRecord ==
    /\ pc = "loop"
    /\ idx <= Len(patch)
    /\ LET chd_object == patch[idx]
           patch_text == chd_object.diff
       IN IF chd_object.b_path = NoPath
          THEN \* line 370: joinpath(None) raises TypeError
               /\ Crash
               /\ UNCHANGED <<idx, repo_update_types,
                              reseat_latest_version_tag>>
          ELSE IF /\ chd_object.b_path = _DOCKERFILE
                  /\ FindAllPrior(patch_text) # <<>>
          THEN DigestChange(patch_text)
               /\ UNCHANGED reseat_latest_version_tag
          ELSE /\ idx' = idx + 1
               /\ repo_update_types' =
                      IF chd_object.b_path \in {_DOCKERFILE, "casc.yaml"}
                      THEN Append(repo_update_types, "MINOR")
                      ELSE repo_update_types
               /\ reseat_latest_version_tag' =
                      IF chd_object.b_path = "plugins.txt" THEN TRUE
                      ELSE reseat_latest_version_tag
               /\ UNCHANGED <<pc, exit_code>>
    /\ UNCHANGED <<tags, remote_tags, tags_before, head, runs, args, patch,
                   latest_version, new_latest_version, ops, last_created,
                   call>>

\* Lines 443-476: bump the working copy, then create or reseat the tag.
Decide ==
    /\ pc = "loop"
    /\ idx > Len(patch)
    /\ LET new == NewLatestVersion(latest_version, repo_update_types)
           new_latest_tag_name == <<"v">> \o SemanticVersionStr(new)
           latest_tag_name == <<"v">> \o SemanticVersionStr(latest_version)
       IN /\ new_latest_version' = new
          /\ IF ~VersionEq(new, latest_version)
             THEN IF new_latest_tag_name \in DOMAIN tags
                  THEN \* git tag: the tag already exists
                       /\ Crash
                       /\ UNCHANGED <<tags, remote_tags, ops, last_created>>
                  ELSE \E fail_at \in 0..Len(PushRefs(<<new_latest_tag_name>>)) :
                       LET created ==
                               [n \in DOMAIN tags \cup {new_latest_tag_name}
                                |-> IF n = new_latest_tag_name THEN head
                                    ELSE tags[n]]
                           pushed == PushAll(remote_tags, created,
                                             PushRefs(<<new_latest_tag_name>>),
                                             fail_at)
                       IN /\ tags' = created
                          /\ remote_tags' = pushed.remote
                          /\ ops' = <<[op |-> "create_tag",
                                       ref |-> new_latest_tag_name]>>
                                    \o pushed.ops
                          /\ last_created' = new_latest_tag_name
                          /\ Ended(pushed.raised)
             ELSE IF reseat_latest_version_tag
             THEN IF latest_tag_name \notin DOMAIN tags
                  THEN \* git tag -d: the tag is not found
                       /\ Crash
                       /\ UNCHANGED <<tags, remote_tags, ops, last_created>>
                  ELSE \E fail_at \in 0..Len(PushRefs(<<<<":">> \o latest_tag_name,
                                                         latest_tag_name>>)) :
                       LET reseated == [tags EXCEPT ![latest_tag_name] = head]
                           pushed == PushAll(remote_tags, reseated,
                                             PushRefs(<<<<":">> \o latest_tag_name,
                                                        latest_tag_name>>),
                                             fail_at)
                       IN /\ tags' = reseated
                          /\ remote_tags' = pushed.remote
                          /\ ops' = <<[op |-> "delete_tag",
                                       ref |-> latest_tag_name],
                                      [op |-> "create_tag",
                                       ref |-> latest_tag_name]>>
                                    \o pushed.ops
                          /\ Ended(pushed.raised)
                          /\ UNCHANGED last_created
             ELSE /\ pc' = "done"
                  /\ exit_code' = 0
                  /\ UNCHANGED <<tags, remote_tags, ops, last_created>>
    /\ UNCHANGED <<tags_before, head, runs, args, patch, idx, latest_version,
                   repo_update_types, reseat_latest_version_tag, call>>

\* The next commit reaches the mainline and the job runs again.
NextRun ==
    /\ pc \in {"done", "aborted", "crashed"}
    /\ runs < MaxRuns
    /\ pc' = "idle"
    /\ head' = head + 1
    /\ patch' = <<>>
    /\ args' = FALSE
    /\ idx' = 1
    /\ latest_version' = Unset
    /\ new_latest_version' = Unset
    /\ repo_update_types' = <<>>
    /\ reseat_latest_version_tag' = FALSE
    /\ ops' = <<>>
    /\ exit_code' = -1
    /\ tags_before' = tags
    /\ UNCHANGED <<tags, remote_tags, runs, last_created, call>>

Init ==
    /\ pc = "idle"
    /\ \E names \in InitialTags :
           /\ tags = [n \in names |-> 0]
           \* the working tree is a clone of the remote
           /\ remote_tags = tags
           /\ tags_before = tags
    /\ head = 1
    /\ runs = 0
    /\ args = FALSE
    /\ patch = <<>>
    /\ idx = 1
    /\ latest_version = Unset
    /\ new_latest_version = Unset
    /\ repo_update_types = <<>>
    /\ reseat_latest_version_tag = FALSE
    /\ ops = <<>>
    /\ exit_code = -1
    /\ last_created = <<>>
    /\ call = NoCall

Next == Start \/ ProcessRecord \/ Decide \/ NextRun

Spec == Init /\ [][Next]_vars

-----------------------------------------------------------------------------
(* Calls of the version methods on inputs of their own. *)

Severities(n) == UNION { [1..k -> VersionUpdateTypes] : k \in 0..n }

PartValues == (0..MaxPart) \cup {9, 10}

\* Version strings of the form major.minor.patch, and for the jenkins form
\* also major.minor.
VersionStrings(form) ==
    { FString([major |-> a, minor |-> b, patch |-> c]) :
          a \in PartValues, b \in PartValues, c \in PartValues }
    \cup IF form = "jenkins"
         THEN { IntToStr(a) \o <<".">> \o IntToStr(b) :
                    a \in PartValues, b \in PartValues }
         ELSE {}

\* The constructor of the class of the given form.
Construct(form, version) ==
    IF form = "jenkins" THEN JenkinsVersion(version)
    ELSE SemanticVersion(version)

InitPure ==
    /\ pc = "call"
    /\ tags = [n \in {} |-> 0]
    /\ remote_tags = [n \in {} |-> 0]
    /\ tags_before = [n \in {} |-> 0]
    /\ head = 1
    /\ runs = 0
    /\ args = FALSE
    /\ patch = <<>>
    /\ idx = 1
    /\ latest_version = Unset
    /\ new_latest_version = Unset
    /\ repo_update_types = <<>>
    /\ reseat_latest_version_tag = FALSE
    /\ ops = <<>>
    /\ exit_code = -1
    /\ last_created = <<>>
    /\ \/ \E versions \in Severities(MaxSeverities) :
              call = [NoCall EXCEPT !.fn = "determine_greatest_update_type",
                                    !.versions = versions]
       \/ \E form \in {"semantic", "jenkins"} :
              \E v0 \in VersionStrings(form), v1 \in VersionStrings(form) :
                  call = [NoCall EXCEPT !.fn = "determine_update_types",
                                        !.form = form, !.v0 = v0, !.v1 = v1]
       \/ \E latest \in { SemanticVersion(v) : v \in VersionStrings("semantic") },
             versions \in Severities(MaxSeverities - 1) :
              call = [NoCall EXCEPT !.fn = "new_latest_version",
                                    !.latest = latest, !.versions = versions]

CallGreatest ==
    /\ call.fn = "determine_greatest_update_type"
    /\ ~call.returned
    /\ call' = [call EXCEPT
                    !.greatest = determine_greatest_update_type(call.versions),
                    !.returned = TRUE]
    /\ UNCHANGED <<pc, tags, remote_tags, tags_before, head, runs, args, patch,
                   idx,
                   latest_version,
                   new_latest_version, repo_update_types,
                   reseat_latest_version_tag, ops, exit_code, last_created>>

CallUpdateTypes ==
    /\ call.fn = "determine_update_types"
    /\ ~call.returned
    /\ call' = [call EXCEPT
                    !.update_types =
                        determine_update_types(Construct(call.form, call.v0),
                                               Construct(call.form, call.v1)),
                    !.returned = TRUE]
    /\ UNCHANGED <<pc, tags, remote_tags, tags_before, head, runs, args, patch,
                   idx,
                   latest_version,
                   new_latest_version, repo_update_types,
                   reseat_latest_version_tag, ops, exit_code, last_created>>

CallNewLatestVersion ==
    /\ call.fn = "new_latest_version"
    /\ ~call.returned
    /\ call' = [call EXCEPT
                    !.new_latest = NewLatestVersion(call.latest, call.versions),
                    !.returned = TRUE]
    /\ UNCHANGED <<pc, tags, remote_tags, tags_before, head, runs, args, patch,
                   idx,
                   latest_version,
                   new_latest_version, repo_update_types,
                   reseat_latest_version_tag, ops, exit_code, last_created>>

NextPure == CallGreatest \/ CallUpdateTypes \/ CallNewLatestVersion

SpecPure == InitPure /\ [][NextPure]_vars

-----------------------------------------------------------------------------
(* What the properties below speak of. *)

Finished == pc \in {"done", "aborted", "crashed"}

Range(seq) == { seq[i] : i \in 1..Len(seq) }

HasOp(name) == \E i \in 1..Len(ops) : ops[i].op = name

\* The run deleted a tag and then made a tag of the same name again.
Reseated ==
    \E i, j \in 1..Len(ops) :
        /\ i < j
        /\ ops[i].op = "delete_tag"
        /\ ops[j] = [op |-> "create_tag", ref |-> ops[i].ref]

\* The run made a tag of a name that no tag had when the run began.
Created ==
    \E i \in 1..Len(ops) :
        ops[i].op = "create_tag" /\ ops[i].ref \notin DOMAIN tags_before

\* The run went through every change record and came to lines 443-476.
Decided == Finished /\ idx > Len(patch)

\* The change record of a diff that names no file on its b side.
NoPathRecord == [b_path |-> NoPath, diff |-> <<"-", "line", "\n">>]

PluginsTouched == \E i \in 1..Len(patch) : patch[i].b_path = "plugins.txt"

\* A change of the digest of the base image from the image aaa to digest.
DigestRecord(digest) ==
    [b_path |-> "Dockerfile",
     diff |-> <<"-FROM ", "jenkins/jenkins:lts", "@sha256:", "aaa", "\n",
                "+FROM ", "jenkins/jenkins:lts", "@sha256:", digest, "\n">>]

\* aaa holds Jenkins 2.330 and ccc holds 3.1: a MAJOR upstream change.
MajorRecord == DigestRecord("ccc")

\* fff holds Jenkins 2.330 as aaa does: only the digest changed.
SameVersionRecord == DigestRecord("fff")

\* eee holds no JENKINS_VERSION.
MissingVersionRecord == DigestRecord("eee")

\* The pinned image line is removed and no pinned image line is added.
PriorOnlyRecord ==
    [b_path |-> "Dockerfile",
     diff |-> <<"-FROM ", "jenkins/jenkins:lts", "@sha256:", "aaa", "\n",
                "+FROM ", "debian:12", "\n">>]

InPatch(record) == \E i \in 1..Len(patch) : patch[i] = record

\* The highest of a collection of update types under MAJOR > MINOR > PATCH.
Highest(types) ==
    IF "MAJOR" \in types THEN "MAJOR"
    ELSE IF "MINOR" \in types THEN "MINOR"
    ELSE IF "PATCH" \in types THEN "PATCH"
    ELSE "None"

\* One bump of a version.
Bumped(v, type) ==
    CASE type = "PATCH" ->
             [major |-> v.major, minor |-> v.minor, patch |-> v.patch + 1]
      [] type = "MINOR" ->
             [major |-> v.major, minor |-> v.minor + 1, patch |-> 0]
      [] type = "MAJOR" -> [major |-> v.major + 1, minor |-> 0, patch |-> 0]
      [] OTHER -> v

TagOf(v) == <<"v">> \o IntToStr(v.major) \o <<".">> \o IntToStr(v.minor)
                \o <<".">> \o IntToStr(v.patch)

-----------------------------------------------------------------------------
(* C1 *)

-----------------------------------------------------------------------------
(* C2 *)

\* C2: a run whose change records hold a MAJOR change of the upstream
\* version ends with a non-zero exit status and issues no tag operation,
\* wherever that record stands and whatever the other records are.
C2_MajorAborts ==
    (Finished /\ InPatch(MajorRecord)) =>
        /\ pc # "done"
        /\ exit_code # 0
        /\ ops = <<>>

\* The MAJOR record comes second, after a record that gave MINOR and with
\* plugins.txt untouched; the run ended by the SystemExit.
C2_Witness ==
    /\ pc = "aborted"
    /\ Len(patch) = 2
    /\ patch[2] = MajorRecord
    /\ repo_update_types = <<"MINOR">>

-----------------------------------------------------------------------------
(* C3 *)

\* C3: the candidate version is the prior version after one bump for the
\* highest update type of the list, however long the list: PATCH gives
\* (major, minor, patch+1), MINOR (major, minor+1, 0), MAJOR (major+1, 0, 0)
\* and an empty list the prior version.
C3_OneBump ==
    (call.fn = "new_latest_version" /\ call.returned) =>
        call.new_latest = Bumped(call.latest, Highest(Range(call.versions)))

\* Two MINOR and one PATCH for 1.9.10 gave 1.10.0.
C3_Witness ==
    /\ call.fn = "new_latest_version"
    /\ call.returned
    /\ call.versions = <<"MINOR", "PATCH", "MINOR">>
    /\ call.latest = [major |-> 1, minor |-> 9, patch |-> 10]
    /\ call.new_latest = [major |-> 1, minor |-> 10, patch |-> 0]

-----------------------------------------------------------------------------
(* C4 *)

\* C4: determine_greatest_update_type returns the highest update type of
\* the list under MAJOR > MINOR > PATCH, None for the empty list, and the
\* same for every permutation of the list.
C4_Greatest ==
    (call.fn = "determine_greatest_update_type" /\ call.returned) =>
        /\ call.greatest = Highest(Range(call.versions))
        /\ \A p \in Permutations(1..Len(call.versions)) :
               determine_greatest_update_type(
                   [i \in 1..Len(call.versions) |-> call.versions[p[i]]])
               = call.greatest

\* A list that holds MAJOR before MINOR and PATCH.
C4_Witness ==
    /\ call.fn = "determine_greatest_update_type"
    /\ call.returned
    /\ call.versions = <<"PATCH", "MAJOR", "MINOR", "PATCH">>
    /\ call.greatest = "MAJOR"

-----------------------------------------------------------------------------
(* C5 *)

\* The parts of a version string, the patch being <<>> when left out.
PartsOf(version) ==
    LET groups == Split(version, ".")
    IN [MAJOR |-> groups[1], MINOR |-> groups[2],
        PATCH |-> IF Len(groups) = 3 THEN groups[3] ELSE <<>>]

\* C5: determine_update_types of two versions of one form holds MAJOR,
\* MINOR, PATCH exactly for the parts in which the two differ, a patch left
\* out differing from every written patch and from no other patch left out,
\* and it is the same for (a, b) and (b, a).
C5_UpdateTypes ==
    (call.fn = "determine_update_types" /\ call.returned) =>
        /\ \A t \in VersionUpdateTypes :
               t \in Range(call.update_types)
                   <=> PartsOf(call.v0)[t] # PartsOf(call.v1)[t]
        /\ Len(call.update_types) = Cardinality(Range(call.update_types))
        /\ determine_update_types(Construct(call.form, call.v1),
                                  Construct(call.form, call.v0))
               = call.update_types

\* 1.10 against 1.10.0 gave PATCH alone.
C5_Witness ==
    /\ call.fn = "determine_update_types"
    /\ call.returned
    /\ call.form = "jenkins"
    /\ call.v0 = <<"1", ".", "1", "0">>
    /\ call.v1 = <<"1", ".", "1", "0", ".", "0">>
    /\ call.update_types = <<"PATCH">>

-----------------------------------------------------------------------------
(* C6 *)

\* C6 as stated: a change of the digest to an image without JENKINS_VERSION
\* gives no update type and does not fail the run; with no record beside it
\* that ends the run, the run reaches exit status 0.
C6_MissingVersionSkipped ==
    (Finished /\ InPatch(MissingVersionRecord)
        /\ ~InPatch(MajorRecord) /\ ~InPatch(PriorOnlyRecord)
        /\ ~InPatch(NoPathRecord)) =>
        pc = "done" /\ exit_code = 0

-----------------------------------------------------------------------------
(* C7 *)

\* C7 as stated: a Dockerfile diff that removes the pinned image line and
\* adds none falls to the generic rule, which gives MINOR, and the run does
\* not fail; with no record beside it that ends the run, the run reaches
\* exit status 0 with MINOR among its update types.
C7_GenericRuleOtherwise ==
    (Finished /\ InPatch(PriorOnlyRecord)
        /\ ~InPatch(MajorRecord) /\ ~InPatch(MissingVersionRecord)
        /\ ~InPatch(NoPathRecord)) =>
        /\ pc = "done"
        /\ "MINOR" \in Range(repo_update_types)

-----------------------------------------------------------------------------
(* C8 *)

\* The operations of a reseat with the push option, all pushes done.
ReseatOps(name) ==
    <<[op |-> "delete_tag", ref |-> name],
      [op |-> "create_tag", ref |-> name],
      [op |-> "push", ref |-> <<":">> \o name],
      [op |-> "push", ref |-> name]>>

\* C8: the operations of a run that reseats are delete, create, and then the
\* removal of the remote tag and the push of the tag, in this order: the
\* local delete and create come first and leave the tag at the current
\* commit, the pushes follow only with the push option, all of them when the
\* run ends with exit status 0.  A run that creates a new tag issues create
\* first and then, only with the push option, one push, which is done when
\* the run ends with exit status 0.  Without the push option no run pushes.
C8_ReseatOrder ==
    /\ ~args => ~HasOp("push")
    /\ Reseated =>
           /\ \E n \in 2..4 : ops = SubSeq(ReseatOps(TagOf(latest_version)), 1, n)
           /\ ~args => Len(ops) = 2
           /\ (args /\ pc = "done") => Len(ops) = 4
           /\ tags[TagOf(latest_version)] = head
    /\ Created =>
           /\ \E n \in 1..2 :
                  ops = SubSeq(<<[op |-> "create_tag",
                                  ref |-> TagOf(new_latest_version)],
                                 [op |-> "push",
                                  ref |-> TagOf(new_latest_version)]>>, 1, n)
           /\ ~args => Len(ops) = 1
           /\ (args /\ pc = "done") => Len(ops) = 2

\* A reseat with the push option: four operations, the tag moved from its
\* commit to the current one, on the remote too.
C8_Witness ==
    /\ pc = "done"
    /\ args
    /\ Reseated
    /\ Len(ops) = 4
    /\ tags[TagOf(latest_version)] = head
    /\ remote_tags[TagOf(latest_version)] = head

-----------------------------------------------------------------------------
(* C9 *)

\* C9 as stated: the tag a run created is the one a later run reads as its
\* prior version, and no run tries to create a tag that exists.
C9_CreatedTagIsNextPrior ==
    /\ (pc = "loop" /\ last_created # <<>>) =>
           TagOf(latest_version) = last_created
    /\ ~(pc = "crashed" /\ idx > Len(patch) /\ ops = <<>>
           /\ new_latest_version # latest_version
           /\ TagOf(new_latest_version) \in DOMAIN tags)

-----------------------------------------------------------------------------
(* C10 *)

\* C10: a change of the digest alone, the upstream version staying the
\* same, gives no update type; when no other record gives one the candidate
\* equals the prior version, and when none touches plugins.txt either, the
\* run ends with exit status 0 and without any tag operation.
C10_DigestOnly ==
    (Finished /\ InPatch(SameVersionRecord)
        /\ \A i \in 1..Len(patch) :
               \/ patch[i] = SameVersionRecord
               \/ patch[i].b_path \in {"plugins.txt", "README.md"}) =>
        /\ repo_update_types = <<>>
        /\ new_latest_version = latest_version
        /\ ~Created
        /\ ~PluginsTouched => (pc = "done" /\ exit_code = 0 /\ ops = <<>>)

\* A run over the change of the digest alone has ended.
C10_Witness ==
    /\ pc = "done"
    /\ patch = <<SameVersionRecord>>
    /\ ops = <<>>
    /\ new_latest_version = latest_version

====
